---- MODULE Spec2Model ----
(***************************************************************************)
(* A model of the winterdrp pipeline execution engine: the Batch/Dataset   *)
(* data model, BaseProcessor.base_apply / apply, the reduce_images run,    *)
(* the ProcessorWithCache cache protocol and the cache fingerprint, the     *)
(* Monitor (construction, process_realtime and its worker threads) and the *)
(* typed containers built on PseudoList.                                   *)
(*                                                                         *)
(* Strings are sequences of character codes, so that concatenation and the *)
(* lexicographic order used by Python's sorted() are computed, not assumed.*)
(***************************************************************************)
EXTENDS Integers, Sequences, FiniteSets, TLC

VARIABLES
    \* ---- one reduce_images run ----
    steps,              \* the resolved configuration: a list of processors
    catch_all_errors,   \* the flag reduce_images is called with
    dataset,            \* the Dataset handed from step to step
    err_stack,          \* the run's cumulative ErrorStack (list of ErrorReports)
    step,               \* index of the next step to apply
    pc,                 \* "running" | "done" | "aborted"
    trace,              \* history: one record per base_apply call of the run
    \* ---- one ProcessorWithCache instance shared by the worker threads ----
    try_load_cache,     \* self.try_load_cache
    write_to_cache,     \* self.write_to_cache
    overwrite,          \* self.overwrite
    files,              \* the cache directory: path -> stored image, or NoFile
    calls,              \* the get_cache_file calls made so far, with their locals
    wcall,              \* per worker: the call it is executing, 0 when idle
    \* ---- two batches whose fingerprints are compared ----
    himages,            \* a batch
    hother,             \* a batch of other objects, reordered and modified
    hfp,                \* the fingerprints get_hash last returned for the two
    hfresh,             \* whether hfp was computed from the batches as they are
    \* ---- one Monitor and the threads of process_realtime ----
    args,               \* <<midway, final>>: the hours given to Monitor.__init__
    midway_postprocess_hours,       \* self.midway_postprocess_hours
    final_postprocess_hours,        \* self.final_postprocess_hours
    warned,             \* whether __init__ logged the midway warning
    email_to_send,      \* self.email_to_send
    now,                \* hours since self.t_start
    midway_postprocess_complete,    \* self.midway_postprocess_complete
    main,               \* the main thread: pc, statement index, exc, snapshot
    observer,           \* "none" | "running" | "stopped" | "joined"
    queue,              \* monitor_queue
    ncreated,           \* history: how many events the watcher has queued
    wk,                 \* per worker thread: pc, event, snapshot, return pc
    errorstack,         \* self.errorstack: the reports added so far
    error_file,         \* the reports in the file at self.error_path
    processed_science_images,       \* self.processed_science_images
    reductions,         \* history: the reduce_images calls of the workers
    midway_runs,        \* history: postprocess calls made by the workers
    final_runs,         \* history: the observer's state at each final postprocess
    \* ---- one DataBatch or Dataset ----
    container,          \* its class and the concrete types of its items
    last_op,            \* history: the last operation made on it
    \* ---- the Image instances of a session and their scratch files ----
    instances,          \* the Image objects made: cache_path, live, copy
    scratch,            \* the cache directory: path -> <<payload>>, or NoData
    cache_files,        \* Image.cache_files, the registry of scratch paths
    registered,         \* history: every path ever put in the registry
    clock,              \* the instant str(Time.now()) shows
    session,            \* "running" | "returned" | "raised": the try block
    cleaned,            \* what the clean_cache of the finally clause raised
    \* ---- the processor classes and one resolved configuration ----
    defined,            \* the processor classes whose definition has run
    subclasses,         \* BaseProcessor.subclasses: key -> class, or NoClass
    configuration,      \* the processors of a configuration, by class
    preceding_steps,    \* self.preceding_steps of the processor being checked
    position,           \* how many processors of the configuration passed
    steps_set,          \* whether set_preceding_steps ran for the next one
    last_check,         \* history: the last prerequisite check and its result
    \* ---- one database table and the exports made to it ----
    db_table,           \* the rows of the table
    sequence,           \* the next value of the sequence of the table
    last_export         \* history: the last export_to_db call and its result

pipeVars == <<steps, catch_all_errors, dataset, err_stack, step, pc, trace>>

cacheVars == <<try_load_cache, write_to_cache, overwrite, files, calls, wcall>>

hashVars == <<himages, hother, hfp, hfresh>>

monVars == <<args, midway_postprocess_hours, final_postprocess_hours, warned,
             email_to_send, now, midway_postprocess_complete, main, observer,
             queue, ncreated, wk, errorstack, error_file,
             processed_science_images, reductions, midway_runs, final_runs>>

conVars == <<container, last_op>>

scrVars == <<instances, scratch, cache_files, registered, clock, session, cleaned>>

procVars == <<defined, subclasses, configuration, preceding_steps, position,
             steps_set, last_check>>

dbVars == <<db_table, sequence, last_export>>

vars == <<pipeVars, cacheVars, hashVars, monVars, conVars, scrVars, procVars, dbVars>>

\* what the actions of one component leave alone
notPipeVars == <<cacheVars, hashVars, monVars, conVars, scrVars, procVars, dbVars>>

notCacheVars == <<pipeVars, hashVars, monVars, conVars, scrVars, procVars, dbVars>>

notHashVars == <<pipeVars, cacheVars, monVars, conVars, scrVars, procVars, dbVars>>

notMonVars == <<pipeVars, cacheVars, hashVars, conVars, scrVars, procVars, dbVars>>

notConVars == <<pipeVars, cacheVars, hashVars, monVars, scrVars, procVars, dbVars>>

notScrVars == <<pipeVars, cacheVars, hashVars, monVars, conVars, procVars, dbVars>>

notProcVars == <<pipeVars, cacheVars, hashVars, monVars, conVars, scrVars, dbVars>>

notDbVars == <<pipeVars, cacheVars, hashVars, monVars, conVars, scrVars, procVars>>

-----------------------------------------------------------------------------
(* Bounds of the model *)

MaxBlocks == 2      \* DataBlocks in one batch

MaxCalls == 3       \* get_cache_file calls in one behaviour

MaxHashLen == 2     \* images in a batch that is fingerprinted

MaxHours == 4       \* largest number of hours a Monitor is configured with

MaxEvents == 1      \* files created in the watched directory

MaxItems == 3       \* items in a container

MaxImages == 3      \* Image instances made in a session

MaxSteps == 3       \* processors in one configuration

MaxKeys == 2        \* values of the primary key of the database table

-----------------------------------------------------------------------------
(* Characters and strings *)

COMMA == 44         \* ord(","), the separator written after each history entry

CharA == 97         \* ord("a")

Char0 == 48         \* ord("0")

-----------------------------------------------------------------------------
(* Data model: DataBlock, DataBatch, Dataset *)

\* Path(x).name: the last component of a path
PathName(path) == path[Len(path)]

\* DataBlock.get_raw_img_list: the header's RAWPATH entry, split at ","
get_raw_img_list(data_block) == data_block.raw

RECURSIVE get_raw_image_names_from(_, _)
get_raw_image_names_from(batch, i) ==
    IF i > Len(batch) THEN <<>>
    ELSE [k \in 1..Len(get_raw_img_list(batch[i])) |->
              PathName(get_raw_img_list(batch[i])[k])]
         \o get_raw_image_names_from(batch, i + 1)

\* a variant that lists the full raw paths instead of their file names
get_raw_image_names_fullpath(batch) ==
    LET RECURSIVE go(_)
        go(i) == IF i > Len(batch) THEN <<>>
                 ELSE get_raw_img_list(batch[i]) \o go(i + 1)
    IN go(1)

\* DataBatch.get_raw_image_names
get_raw_image_names(batch) == get_raw_image_names_from(batch, 1)

\* The DataBlock an image loader builds for the j-th image of batch b:
\* BASENAME "<b><j>", an empty processing history, and one raw image, or two
\* raw images for a block that is already a stack (even j).
RawPath(b, j, k) == <<"raw", <<CharA + b - 1, Char0 + j, Char0 + k>>>>

LoadedBlock(b, j) ==
    [name  |-> <<CharA + b - 1, Char0 + j>>,
     raw   |-> IF j % 2 = 0 THEN <<RawPath(b, j, 1), RawPath(b, j, 2)>>
               ELSE <<RawPath(b, j, 1)>>,
     hist  |-> <<>>,
     stamps |-> 0,
     data  |-> 0]

LoadedBatch(b, n) == [j \in 1..n |-> LoadedBlock(b, j)]

\* the shapes (block counts per batch) of the Datasets a run starts from;
\* <<0>> is Dataset([ImageBatch()]), the Dataset every entry point passes in
InputShapes ==
    { <<>>, <<0>>, <<1>>, <<MaxBlocks>>, <<1, 1>>, <<MaxBlocks, 0>>, <<0, MaxBlocks>>,
      <<1, MaxBlocks, 1>>, <<MaxBlocks, 1, 0>> }

InputDatasets ==
    { [b \in 1..Len(size) |-> LoadedBatch(b, size[b])] : size \in InputShapes }

-----------------------------------------------------------------------------
(* Processors *)

\* a plain BaseProcessor subclass
ProcA == [key |-> <<CharA>>, module |-> "processors.a", cleanup |-> FALSE]

\* a CleanupProcessor subclass
ProcC == [key |-> <<CharA + 2>>, module |-> "processors.c", cleanup |-> TRUE]

Processors == {ProcA, ProcC}

\* the named configurations a run can select
Configurations ==
    { <<>>, <<ProcA>>, <<ProcC>>, <<ProcA, ProcA>>, <<ProcA, ProcC>>, <<ProcC, ProcA>> }

\* What the subclass transformation does with one batch: it returns the first
\* `keep` blocks (all of them, or fewer for a selecting processor), or it
\* raises a NoncriticalProcessingError, or it raises any other exception.
Outcomes ==
    [kind : {"ok"}, keep : 0..MaxBlocks]
    \cup [kind : {"NoncriticalProcessingError", "Exception"}, keep : {0}]

OutcomeVectors(ds) ==
    { o \in [1..Len(ds) -> Outcomes] :
        \A i \in 1..Len(ds) : o[i].kind = "ok" => o[i].keep <= Len(ds[i]) }

\* BaseProcessor._apply, as implemented by the subclasses
sub_apply(proc, batch, out) ==
    IF out.kind = "ok"
    THEN [raised |-> FALSE, exc |-> "none",
          batch |-> [j \in 1..out.keep |-> [batch[j] EXCEPT !.data = @ + 1]]]
    ELSE [raised |-> TRUE, exc |-> out.kind, batch |-> batch]

\* a variant that writes the key over the history instead of appending it
update_processing_history_rewrite(proc, batch) ==
    [j \in 1..Len(batch) |->
        [batch[j] EXCEPT !.hist = proc.key \o <<COMMA>>,
                         !.stamps = @ + 1]]

\* BaseProcessor._update_processing_history
update_processing_history(proc, batch) ==
    [j \in 1..Len(batch) |->
        [batch[j] EXCEPT !.hist = @ \o proc.key \o <<COMMA>>,
                         !.stamps = @ + 1]]

\* a variant that stamps the batch before the transformation runs
apply_stamp_first(proc, batch, out) ==
    LET stamped == update_processing_history(proc, batch)
        r == sub_apply(proc, stamped, out)
    IN r

\* BaseProcessor.apply
apply(proc, batch, out) ==
    LET r == sub_apply(proc, batch, out)
    IN IF r.raised THEN r
       ELSE [r EXCEPT !.batch = update_processing_history(proc, r.batch)]

\* BaseDPU.generate_error_report
generate_error_report(proc, exc, batch) ==
    [error |-> exc, processor_name |-> proc.module,
     contents |-> get_raw_image_names(batch)]

\* CleanupProcessor.update_dataset
cleanup_update_dataset(ds) == SelectSeq(ds, LAMBDA x : Len(x) > 0)

\* BaseProcessor.update_dataset, and its override in CleanupProcessor
update_dataset(proc, ds) ==
    IF proc.cleanup THEN cleanup_update_dataset(ds) ELSE ds

\* a variant of the loop body that drops a batch on every exception
try_batch_drop_all(proc, ds, outs, i, acc) ==
    LET batch == ds[i]
        r == apply(proc, batch, outs[i])
        att == [idx |-> i, raised |-> r.raised, exc |-> r.exc,
                batch_in |-> batch, batch_out |-> r.batch]
    IN IF ~r.raised
       THEN [acc EXCEPT !.passed = Append(@, r.batch),
                        !.attempts = Append(@, att)]
       ELSE [acc EXCEPT !.err_stack = Append(@, generate_error_report(proc, r.exc, batch)),
                        !.attempts = Append(@, att)]

\* a variant of the loop body that records no report for a noncritical error
try_batch_silent(proc, ds, outs, i, acc) ==
    LET batch == ds[i]
        r == apply(proc, batch, outs[i])
        att == [idx |-> i, raised |-> r.raised, exc |-> r.exc,
                batch_in |-> batch, batch_out |-> r.batch]
    IN IF ~r.raised
       THEN [acc EXCEPT !.passed = Append(@, r.batch),
                        !.attempts = Append(@, att)]
       ELSE IF r.exc = "NoncriticalProcessingError"
       THEN [acc EXCEPT !.passed = Append(@, batch),
                        !.attempts = Append(@, att)]
       ELSE [acc EXCEPT !.err_stack = Append(@, generate_error_report(proc, r.exc, batch)),
                        !.attempts = Append(@, att)]

\* The body of the loop of base_apply: the try block and its two handlers.
\* acc.passed is passed_batches, acc.err_stack is err_stack; acc.attempts
\* records the call of apply (history only).
try_batch(proc, ds, outs, i, acc) ==
    LET batch == ds[i]
        r == apply(proc, batch, outs[i])
        att == [idx |-> i, raised |-> r.raised, exc |-> r.exc,
                batch_in |-> batch, batch_out |-> r.batch]
    IN IF ~r.raised
       THEN [acc EXCEPT !.passed = Append(@, r.batch),
                        !.attempts = Append(@, att)]
       ELSE IF r.exc = "NoncriticalProcessingError"
       THEN [acc EXCEPT !.err_stack = Append(@, generate_error_report(proc, r.exc, batch)),
                        !.passed = Append(@, batch),
                        !.attempts = Append(@, att)]
       ELSE [acc EXCEPT !.err_stack = Append(@, generate_error_report(proc, r.exc, batch)),
                        !.attempts = Append(@, att)]

\* a variant of the loop that stops at the first batch whose apply raised
RECURSIVE base_apply_loop_break(_, _, _, _, _)
base_apply_loop_break(proc, ds, outs, i, acc) ==
    IF i > Len(ds) \/ Len(acc.err_stack) > 0 THEN acc
    ELSE base_apply_loop_break(proc, ds, outs, i + 1, try_batch(proc, ds, outs, i, acc))

\* for i, batch in enumerate(dataset)
RECURSIVE base_apply_loop(_, _, _, _, _)
base_apply_loop(proc, ds, outs, i, acc) ==
    IF i > Len(ds) THEN acc
    ELSE base_apply_loop(proc, ds, outs, i + 1, try_batch(proc, ds, outs, i, acc))

\* BaseProcessor.base_apply: returns (dataset, err_stack); attempts and passed
\* are kept for the history
base_apply(proc, ds, outs) ==
    LET acc == base_apply_loop(proc, ds, outs, 1,
                   [passed |-> <<>>, err_stack |-> <<>>, attempts |-> <<>>])
    IN [dataset |-> update_dataset(proc, acc.passed),
        err_stack |-> acc.err_stack,
        passed |-> acc.passed,
        attempts |-> acc.attempts]

-----------------------------------------------------------------------------
(* ImageHandler.get_hash: the cache fingerprint *)

\* Python's order on str: lexicographic by code point, a proper prefix first
RECURSIVE StrLeq(_, _)
StrLeq(s, t) ==
    IF s = <<>> THEN TRUE
    ELSE IF t = <<>> THEN FALSE
    ELSE IF s[1] < t[1] THEN TRUE
    ELSE IF s[1] > t[1] THEN FALSE
    ELSE StrLeq(Tail(s), Tail(t))

\* insertion of one string into a sorted list, after the entries equal to it
RECURSIVE InsertSorted(_, _)
InsertSorted(x, list) ==
    IF list = <<>> THEN <<x>>
    ELSE IF StrLeq(list[1], x) THEN <<list[1]>> \o InsertSorted(x, Tail(list))
    ELSE <<x>> \o list

\* sorted(list)
RECURSIVE sorted(_)
sorted(list) ==
    IF list = <<>> THEN <<>>
    ELSE InsertSorted(list[Len(list)], sorted(SubSeq(list, 1, Len(list) - 1)))

\* "".join(list)
RECURSIVE join(_)
join(list) == IF list = <<>> THEN <<>> ELSE list[1] \o join(Tail(list))

\* the string get_hash hashes: the sorted BASENAME+CALSTEPS strings, joined
hash_key(images) ==
    join(sorted([j \in 1..Len(images) |-> images[j].name \o images[j].hist]))

\* hashlib.sha1(key.encode()).hexdigest(): a digest that is a function of the
\* key alone, and that tells two keys apart
sha1_hexdigest(key) == <<"sha1", key>>

\* a variant that also hashes the payload of the images
get_hash_with_payload(images) ==
    sha1_hexdigest(join(sorted([j \in 1..Len(images) |->
        images[j].name \o images[j].hist \o <<Char0 + images[j].data>>])))

\* ImageHandler.get_hash
get_hash(images) == sha1_hexdigest(hash_key(images))

-----------------------------------------------------------------------------
(* Fingerprinting two batches *)

\* the BASENAMEs and processing histories of the images that are fingerprinted
HashNames == { <<CharA>>, <<CharA + 1>>, <<CharA, CharA + 1>> }

HashHistories == { <<>>, ProcA.key \o <<COMMA>> }

\* an image object: oid tells the objects apart, all else is its header and
\* payload
HashBlock(name, hist, oid) ==
    [name |-> name, raw |-> <<<<"raw", name>>>>, hist |-> hist, stamps |-> 0,
     data |-> 0, oid |-> oid]

HashInputs ==
    UNION { [1..n -> { HashBlock(nm, h, 0) : nm \in HashNames, h \in HashHistories }] :
              n \in 0..MaxHashLen }

\* copy.deepcopy of a batch: other objects with the same headers and payloads
deepcopy(images) == [j \in 1..Len(images) |-> [images[j] EXCEPT !.oid = 1]]

\* Image.set_data
set_data(image, data) == [image EXCEPT !.data = data]

\* a batch loaded from disk: objects of its own
loaded(images) == [j \in 1..Len(images) |-> [images[j] EXCEPT !.oid = 2]]

\* the second batch is still the copy of the first
IsCopy(images) == \A j \in 1..Len(images) : images[j].oid = 1

\* the second batch is put in another order
HashSwap ==
    /\ IsCopy(hother)
    /\ \E i \in 1..(Len(hother) - 1) :
         hother' = [hother EXCEPT ![i] = hother[i + 1], ![i + 1] = hother[i]]
    /\ hfresh' = FALSE
    /\ UNCHANGED <<himages, hfp>>
    /\ UNCHANGED notHashVars

\* the payload of an image of the second batch is replaced
HashSetData ==
    /\ IsCopy(hother)
    /\ \E i \in 1..Len(hother), data \in {0, 1} :
         /\ hother[i].data # data
         /\ hother' = [hother EXCEPT ![i] = set_data(hother[i], data)]
    /\ hfresh' = FALSE
    /\ UNCHANGED <<himages, hfp>>
    /\ UNCHANGED notHashVars

\* a processor is applied to the second batch and stamps its history
HashStamp ==
    /\ Len(hother) > 0
    /\ IsCopy(hother)
    /\ \A j \in 1..Len(hother) : hother[j].stamps = 0
    /\ hother' = update_processing_history(ProcA, hother)
    /\ hfresh' = FALSE
    /\ UNCHANGED <<himages, hfp>>
    /\ UNCHANGED notHashVars

\* another batch is loaded from disk as the second batch, in place of the
\* untouched copy, and is only fingerprinted from then on
HashLoad ==
    /\ hother = deepcopy(himages)
    /\ hother' \in { loaded(images) : images \in HashInputs }
    /\ hfresh' = FALSE
    /\ UNCHANGED <<himages, hfp>>
    /\ UNCHANGED notHashVars

\* get_hash is called on both batches
HashBoth ==
    /\ ~hfresh
    /\ hfp' = <<get_hash(himages), get_hash(hother)>>
    /\ hfresh' = TRUE
    /\ UNCHANGED <<himages, hother>>
    /\ UNCHANGED notHashVars

-----------------------------------------------------------------------------
(* ProcessorWithCache.get_cache_file *)

\* the worker threads that share the pipeline and so the processor instance
Workers == {"w1", "w2"}

\* the processor whose product is cached
CacheProc == [key |-> <<CharA + 1>>, module |-> "processors.b", cleanup |-> FALSE]

\* the entry of a path at which no file exists; a file is held as <<image>>
NoFile == <<>>

\* a local that holds no image yet
NoImage == [data |-> <<>>, name |-> <<>>, raw |-> <<>>, savepath |-> <<>>]

\* ProcessorWithCache.select_cache_images, as implemented by the subclasses
select_cache_images(images) == images

\* ProcessorWithCache.get_cache_file_name
get_cache_file_name(images) ==
    <<CacheProc.key, get_hash(select_cache_images(images)), ".fits">>

\* ProcessorWithCache.get_cache_path: the file name under the cache directory
get_cache_path(images) == <<"cache", get_cache_file_name(images)>>

\* the batches get_cache_file is called with: two with the same
\* (BASENAME, CALSTEPS) pairs and different payloads, one with another name
CacheInputs ==
    { LoadedBatch(1, 1),
      [LoadedBatch(1, 1) EXCEPT ![1].data = 1],
      LoadedBatch(2, 1) }

CachePaths == { get_cache_path(images) : images \in CacheInputs }

\* ProcessorWithCache.make_image, as implemented by the subclasses: a product
\* of the payloads, with the header of the first image
make_image(images) ==
    [data |-> [j \in 1..Len(images) |-> images[j].data],
     name |-> images[1].name,
     raw  |-> images[1].raw,
     savepath |-> <<>>]

\* ImageHandler.save_fits: records the path in the image's header and writes
\* the image; the result is the image as written (and as the caller holds it)
save_fits(image, path) == [image EXCEPT !.savepath = path]

\* ImageHandler.open_fits: reads the file and completes RAWPATH and BASENAME
open_fits(path) ==
    LET f == files[path][1] IN
    [f EXCEPT !.raw = IF @ = <<>> THEN <<path>> ELSE @,
              !.name = IF @ = <<>> THEN PathName(path) ELSE @]

\* a variant that never uses the stored file
should_load_never(exists) == FALSE

\* np.logical_and(self.try_load_cache, exists)
should_load(exists) == try_load_cache /\ exists

\* a variant that saves whatever write_to_cache says
should_save_ignore_flag(exists) == ~exists \/ overwrite

\* a variant that only ever rewrites a file that exists
should_save_existing_only(exists) == write_to_cache /\ exists /\ overwrite

\* self.write_to_cache and np.sum([not exists, self.overwrite]) > 0
should_save(exists) == write_to_cache /\ (~exists \/ overwrite)

\* the number of times the file at a path has been written by the calls
Writes(path) ==
    Cardinality({ c \in 1..Len(calls) : calls[c].wrote /\ calls[c].path = path })

\* a worker enters get_cache_file: path = self.get_cache_path(images)
GetCachePath(w) ==
    /\ wcall[w] = 0
    /\ Len(calls) < MaxCalls
    /\ \E images \in CacheInputs :
         calls' = Append(calls,
             [worker |-> w, images |-> images, path |-> get_cache_path(images),
              after |-> { c \in 1..Len(calls) : calls[c].pos = "done" },
              pos |-> "path", exists |-> FALSE, wseen |-> 0, wfix |-> 0,
              made |-> FALSE, loaded |-> FALSE, wrote |-> FALSE, rewrote |-> FALSE,
              image |-> NoImage, result |-> NoImage])
    /\ wcall' = [wcall EXCEPT ![w] = Len(calls) + 1]
    /\ UNCHANGED <<try_load_cache, write_to_cache, overwrite, files>>
    /\ UNCHANGED notCacheVars

\* exists = os.path.exists(path)
CheckExists(w) ==
    /\ wcall[w] # 0
    /\ calls[wcall[w]].pos = "path"
    /\ LET c == calls[wcall[w]] IN
       calls' = [calls EXCEPT ![wcall[w]] =
                    [c EXCEPT !.exists = (files[c.path] # NoFile),
                              !.wseen = Writes(c.path),
                              !.pos = "checked"]]
    /\ UNCHANGED <<try_load_cache, write_to_cache, overwrite, files, wcall>>
    /\ UNCHANGED notCacheVars

\* return self.open_fits(path)
LoadCached(w) ==
    /\ wcall[w] # 0
    /\ calls[wcall[w]].pos = "checked"
    /\ should_load(calls[wcall[w]].exists)
    /\ LET c == calls[wcall[w]] IN
       calls' = [calls EXCEPT ![wcall[w]] =
                    [c EXCEPT !.result = open_fits(c.path),
                              !.loaded = TRUE,
                              !.wfix = Writes(c.path),
                              !.pos = "done"]]
    /\ wcall' = [wcall EXCEPT ![w] = 0]
    /\ UNCHANGED <<try_load_cache, write_to_cache, overwrite, files>>
    /\ UNCHANGED notCacheVars

\* image = self.make_image(images)
MakeImage(w) ==
    /\ wcall[w] # 0
    /\ calls[wcall[w]].pos = "checked"
    /\ ~should_load(calls[wcall[w]].exists)
    /\ LET c == calls[wcall[w]] IN
       calls' = [calls EXCEPT ![wcall[w]] =
                    [c EXCEPT !.image = make_image(c.images),
                              !.made = TRUE,
                              !.pos = "made"]]
    /\ UNCHANGED <<try_load_cache, write_to_cache, overwrite, files, wcall>>
    /\ UNCHANGED notCacheVars

\* self.save_fits(image, path); return image
SaveAndReturn(w) ==
    /\ wcall[w] # 0
    /\ calls[wcall[w]].pos = "made"
    /\ should_save(calls[wcall[w]].exists)
    /\ LET c == calls[wcall[w]]
           saved == save_fits(c.image, c.path)
       IN /\ files' = [files EXCEPT ![c.path] = <<saved>>]
          /\ calls' = [calls EXCEPT ![wcall[w]] =
                          [c EXCEPT !.result = saved,
                                    !.image = saved,
                                    !.wrote = TRUE,
                                    !.rewrote = (files[c.path] # NoFile),
                                    !.wfix = Writes(c.path) + 1,
                                    !.pos = "done"]]
    /\ wcall' = [wcall EXCEPT ![w] = 0]
    /\ UNCHANGED <<try_load_cache, write_to_cache, overwrite>>
    /\ UNCHANGED notCacheVars

\* return image, nothing saved
ReturnUnsaved(w) ==
    /\ wcall[w] # 0
    /\ calls[wcall[w]].pos = "made"
    /\ ~should_save(calls[wcall[w]].exists)
    /\ LET c == calls[wcall[w]] IN
       calls' = [calls EXCEPT ![wcall[w]] =
                    [c EXCEPT !.result = c.image,
                              !.wfix = Writes(c.path),
                              !.pos = "done"]]
    /\ wcall' = [wcall EXCEPT ![w] = 0]
    /\ UNCHANGED <<try_load_cache, write_to_cache, overwrite, files>>
    /\ UNCHANGED notCacheVars

-----------------------------------------------------------------------------
(* Pipeline.reduce_images *)

\* a variant that returns the Dataset of the last step as it is
reduce_return_dataset_unpruned(ds) == ds

\* the Dataset reduce_images returns after the last step
reduce_return_dataset(ds) == SelectSeq(ds, LAMBDA x : Len(x) > 0)

\* one step of the run: the processor's base_apply over the whole Dataset,
\* then the fail-fast test
ReduceStep ==
    /\ pc = "running"
    /\ step <= Len(steps)
    /\ \E outs \in OutcomeVectors(dataset) :
         LET r == base_apply(steps[step], dataset, outs)
             stack == err_stack \o r.err_stack
         IN /\ dataset' = r.dataset
            /\ err_stack' = stack
            /\ trace' = Append(trace, [proc |-> steps[step], input |-> dataset,
                                       attempts |-> r.attempts, passed |-> r.passed,
                                       returned |-> r.dataset, err_stack |-> r.err_stack])
            /\ IF ~catch_all_errors /\ Len(stack) > 0
               THEN pc' = "aborted" /\ step' = step
               ELSE pc' = "running" /\ step' = step + 1
    /\ UNCHANGED <<steps, catch_all_errors>>
    /\ UNCHANGED notPipeVars

\* the end of the run: the Dataset and the ErrorStack are returned
ReduceReturn ==
    /\ pc = "running"
    /\ step > Len(steps)
    /\ dataset' = reduce_return_dataset(dataset)
    /\ pc' = "done"
    /\ UNCHANGED <<steps, catch_all_errors, err_stack, step, trace>>
    /\ UNCHANGED notPipeVars

-----------------------------------------------------------------------------
(* Monitor: construction *)

\* durations are held in twentieths of an hour, so that 0.95 * x is exact
\* for whole hours
Scale == 20

\* float(hours) * u.hour
hours(h) == Scale * h

\* 0.95 * self.final_postprocess_hours
ninety_five_percent(duration) == (19 * duration) \div Scale

\* Monitor.__init__: the midway duration as stored
clamp_midway(midway, final) ==
    IF midway > final THEN ninety_five_percent(final) ELSE midway

\* Monitor.__init__: whether the "Midway postprocessing was set to" warning
\* is logged
warns_midway(midway, final) == midway > final

\* the hours a Monitor is configured with
ConfiguredHours == (0 - MaxHours)..MaxHours

\* Monitor.__init__, for midway_postprocess_hours and final_postprocess_hours
MonitorInit ==
    /\ main.pc = "new"
    /\ final_postprocess_hours' = hours(args[2])
    /\ midway_postprocess_hours' =
          clamp_midway(hours(args[1]), hours(args[2]))
    /\ warned' = warns_midway(hours(args[1]), hours(args[2]))
    /\ main' = [main EXCEPT !.pc = "init"]
    /\ UNCHANGED <<args, email_to_send, now, midway_postprocess_complete,
                   observer, queue, ncreated, wk, errorstack, error_file,
                   processed_science_images, reductions, midway_runs,
                   final_runs>>
    /\ UNCHANGED notMonVars

-----------------------------------------------------------------------------
(* Monitor: process_realtime, process_load_queue, postprocess *)

\* what a created file turns out to be
EventKinds == {"science", "calibration", "corrupt", "partial", "other"}

\* event.src_path
src_path(event) ==
    <<"raw", event.id, IF event.kind = "other" THEN ".txt" ELSE ".fits">>

\* event.src_path[-5:] == ".fits"
is_fits(event) == src_path(event)[3] = ".fits"

\* a variant of the check that succeeds at the first attempt
transfer_complete_always(event) == TRUE

\* hdul._file.tell() == hdul._file.size, False while the file is being written
transfer_complete(event) == event.kind # "partial"

\* a variant that takes every image for a science image
is_science_always(event) == TRUE

\* img["OBSCLASS"] == "science"
is_science(event) == event.kind = "science"

\* a worker that holds no event
NoEvent == [id |-> 0, kind |-> "none"]

\* ErrorReport(exc, "monitor", contents=[event.src_path])
monitor_report(event) ==
    [processor |-> "monitor", contents |-> <<src_path(event)>>]

\* an ErrorReport of a processor of the pipeline, returned by reduce_images
reduce_report(event) ==
    [processor |-> ProcA.module, contents |-> <<src_path(event)>>]

\* Time.now() - self.t_start, in the unit of the durations
elapsed == hours(now)

\* a variant of the loop condition that never expires
main_loop_condition_forever(t) == TRUE

\* (Time.now() - self.t_start) < self.final_postprocess_hours
main_loop_condition(t) == t < final_postprocess_hours

\* Time.now() - self.t_start > self.midway_postprocess_hours
midway_due(t) == t > midway_postprocess_hours

\* a variant of the finally block that does not join the watcher
finally_block_no_join == <<"stop", "postprocess">>

\* the statements of the finally block of process_realtime
finally_block == <<"stop", "join", "postprocess">>

monCfg == <<args, midway_postprocess_hours, final_postprocess_hours, warned,
            email_to_send>>

\* the clock advances, up to the final deadline
Tick ==
    /\ main.pc \in {"watching", "finally", "log_write"}
    /\ now < args[2]
    /\ now' = now + 1
    /\ UNCHANGED <<monCfg, main, midway_postprocess_complete, observer, queue,
                   ncreated, wk, errorstack, error_file,
                   processed_science_images, reductions, midway_runs,
                   final_runs>>
    /\ UNCHANGED notMonVars

\* process_realtime up to the main loop: the workers and the watcher start
StartRealtime ==
    /\ main.pc = "init"
    /\ main' = [main EXCEPT !.pc = "watching"]
    /\ observer' = "running"
    /\ wk' = [w \in Workers |-> [wk[w] EXCEPT !.pc = "top"]]
    /\ UNCHANGED <<monCfg, now, midway_postprocess_complete, queue, ncreated,
                   errorstack, error_file, processed_science_images,
                   reductions, midway_runs, final_runs>>
    /\ UNCHANGED notMonVars

\* NewImageHandler.on_created: the watcher puts a "created" event in the queue
OnCreated ==
    /\ observer = "running"
    /\ ncreated < MaxEvents
    /\ queue' = Append(queue, ncreated + 1)
    /\ ncreated' = ncreated + 1
    /\ UNCHANGED <<monCfg, now, main, midway_postprocess_complete, observer,
                   wk, errorstack, error_file, processed_science_images,
                   reductions, midway_runs, final_runs>>
    /\ UNCHANGED notMonVars

\* line 299: the deadline has passed and the main loop ends
MainLoopExit ==
    /\ main.pc = "watching"
    /\ ~main_loop_condition(elapsed)
    /\ main' = [main EXCEPT !.pc = "finally", !.i = 1]
    /\ UNCHANGED <<monCfg, now, midway_postprocess_complete, observer, queue,
                   ncreated, wk, errorstack, error_file,
                   processed_science_images, reductions, midway_runs,
                   final_runs>>
    /\ UNCHANGED notMonVars

\* line 299-300: an exception (a keyboard interrupt) is raised in the main
\* loop; the finally block runs before it propagates
MainInterrupt ==
    /\ main.pc = "watching"
    /\ main_loop_condition(elapsed)
    /\ main' = [main EXCEPT !.pc = "finally", !.i = 1, !.exc = TRUE]
    /\ UNCHANGED <<monCfg, now, midway_postprocess_complete, observer, queue,
                   ncreated, wk, errorstack, error_file,
                   processed_science_images, reductions, midway_runs,
                   final_runs>>
    /\ UNCHANGED notMonVars

\* where the main thread goes after statement i of the finally block
after_statement(i) ==
    IF i < Len(finally_block) THEN [pc |-> "finally", i |-> i + 1]
    ELSE [pc |-> "done", i |-> 0]

\* one statement of the finally block: observer.stop(), observer.join(),
\* self.postprocess() up to the read of the ErrorStack in update_error_log
MainFinally ==
    /\ main.pc = "finally"
    /\ LET stmt == finally_block[main.i]
           nxt == after_statement(main.i) IN
       \/ /\ stmt = "stop"
          /\ observer' = "stopped"
          /\ main' = [main EXCEPT !.pc = nxt.pc, !.i = nxt.i]
          /\ UNCHANGED final_runs
       \/ /\ stmt = "join"
          /\ observer = "stopped"
          /\ observer' = "joined"
          /\ main' = [main EXCEPT !.pc = nxt.pc, !.i = nxt.i]
          /\ UNCHANGED final_runs
       \/ /\ stmt = "postprocess"
          /\ final_runs' = Append(final_runs, observer)
          /\ main' = [main EXCEPT !.pc = "log_write", !.snap = errorstack]
          /\ UNCHANGED observer
    /\ UNCHANGED <<monCfg, now, midway_postprocess_complete, queue, ncreated,
                   wk, errorstack, error_file, processed_science_images,
                   reductions, midway_runs>>
    /\ UNCHANGED notMonVars

\* the final postprocess writes the error summary and returns
MainLogWrite ==
    /\ main.pc = "log_write"
    /\ error_file' = main.snap
    /\ LET nxt == after_statement(main.i) IN
         main' = [main EXCEPT !.pc = nxt.pc, !.i = nxt.i, !.snap = {}]
    /\ UNCHANGED <<monCfg, now, midway_postprocess_complete, observer, queue,
                   ncreated, wk, errorstack, processed_science_images,
                   reductions, midway_runs, final_runs>>
    /\ UNCHANGED notMonVars

\* the worker threads run while process_realtime has not returned
Running == main.pc \in {"watching", "finally", "log_write"}

\* what a worker step leaves alone, besides what it names
workerFrame == <<monCfg, now, main, observer, ncreated, final_runs>>

\* line 374-375 and 386, 453-454: the midway deadline and the one-shot flag
\* are tested; if the checkpoint is not due, queue.empty() is tested and the
\* worker sleeps if it is
WCheckMidway(w) ==
    /\ Running
    /\ wk[w].pc = "top"
    /\ wk' = [wk EXCEPT ![w].pc =
                 IF midway_due(elapsed) /\ ~midway_postprocess_complete
                 THEN "set_flag"
                 ELSE IF queue # <<>> THEN "get" ELSE "top"]
    /\ UNCHANGED <<workerFrame, midway_postprocess_complete, queue, errorstack,
                   error_file, processed_science_images, reductions,
                   midway_runs>>
    /\ UNCHANGED notMonVars

\* line 376-378: the flag is set and postprocess is entered; its
\* update_error_log reads the reports of the ErrorStack
WSetFlag(w) ==
    /\ Running
    /\ wk[w].pc = "set_flag"
    /\ midway_postprocess_complete' = TRUE
    /\ midway_runs' = midway_runs + 1
    /\ wk' = [wk EXCEPT ![w].pc = "log_write", ![w].snap = errorstack,
                        ![w].ret = "mail"]
    /\ UNCHANGED <<workerFrame, queue, errorstack, error_file,
                   processed_science_images, reductions>>
    /\ UNCHANGED notMonVars

\* where a worker goes when update_error_log returns: to line 379 after the
\* midway postprocess, where summarise_errors rewrites the error file before
\* the email if one is configured; to send_gmail after that rewrite; to the
\* top of the loop after an event
after_log_write(t) ==
    IF t.ret = "mail"
    THEN IF email_to_send
         THEN [t EXCEPT !.pc = "log_write", !.snap = errorstack, !.ret = "send"]
         ELSE [t EXCEPT !.pc = "top", !.snap = {}, !.ret = "top"]
    ELSE [t EXCEPT !.pc = t.ret, !.snap = {}, !.ret = "top",
                   !.event = NoEvent]

\* update_error_log: the error file is overwritten with what was read
WLogWrite(w) ==
    /\ Running
    /\ wk[w].pc = "log_write"
    /\ error_file' = wk[w].snap
    /\ wk' = [wk EXCEPT ![w] = after_log_write(wk[w])]
    /\ UNCHANGED <<workerFrame, midway_postprocess_complete, queue, errorstack,
                   processed_science_images, reductions, midway_runs>>
    /\ UNCHANGED notMonVars

\* send_gmail: the summary is sent, or the collaborator raises; lines 374-384
\* are outside the try statement, so the exception ends the thread
WSend(w) ==
    /\ Running
    /\ wk[w].pc = "send"
    /\ \/ wk' = [wk EXCEPT ![w].pc = "top"]
       \/ wk' = [wk EXCEPT ![w].pc = "dead"]
    /\ UNCHANGED <<workerFrame, midway_postprocess_complete, queue, errorstack,
                   error_file, processed_science_images, reductions,
                   midway_runs>>
    /\ UNCHANGED notMonVars

\* line 387-389: queue.get() returns once the queue holds an event; what the
\* created file is shows now; an event for a file that is no .fits file is
\* passed over
WGet(w) ==
    /\ Running
    /\ wk[w].pc = "get"
    /\ queue # <<>>
    /\ queue' = Tail(queue)
    /\ \E kind \in EventKinds :
         LET event == [id |-> Head(queue), kind |-> kind] IN
         wk' = [wk EXCEPT ![w].pc = IF is_fits(event) THEN "wait" ELSE "top",
                          ![w].event = IF is_fits(event) THEN event ELSE NoEvent]
    /\ UNCHANGED <<workerFrame, midway_postprocess_complete, errorstack,
                   error_file, processed_science_images, reductions,
                   midway_runs>>
    /\ UNCHANGED notMonVars

\* line 400-439: the worker polls until the file is fully transferred; then
\* the image is loaded and classified: for a science image reduce_images is
\* called, a calibration image is skipped, and a file that cannot be loaded
\* or classified raises
WLoad(w) ==
    /\ Running
    /\ wk[w].pc = "wait"
    /\ LET event == wk[w].event IN
       IF ~transfer_complete(event)
       THEN /\ UNCHANGED wk
            /\ UNCHANGED reductions
       ELSE IF event.kind = "corrupt"
       THEN /\ wk' = [wk EXCEPT ![w].pc = "handler"]
            /\ UNCHANGED reductions
       ELSE IF is_science(event)
       THEN /\ wk' = [wk EXCEPT ![w].pc = "reduce"]
            /\ reductions' = Append(reductions,
                   [event |-> event, catch_all_errors |-> TRUE])
       ELSE /\ wk' = [wk EXCEPT ![w].pc = "top", ![w].event = NoEvent]
            /\ UNCHANGED reductions
    /\ UNCHANGED <<workerFrame, midway_postprocess_complete, queue, errorstack,
                   error_file, processed_science_images, midway_runs>>
    /\ UNCHANGED notMonVars

\* what a reduce_images call of the worker comes to
ReduceOutcomes == {"clean", "errors", "raise", "hang"}

\* line 435-442: reduce_images returns its ErrorStack, the path is appended
\* to processed_science_images and the reports to the ErrorStack, which
\* update_error_log then reads; or the call raises; or it never returns
WReduce(w) ==
    /\ Running
    /\ wk[w].pc = "reduce"
    /\ \E outcome \in ReduceOutcomes :
         LET event == wk[w].event IN
         \/ /\ outcome \in {"clean", "errors"}
            /\ processed_science_images' =
                  Append(processed_science_images, src_path(event))
            /\ errorstack' = errorstack \cup
                  (IF outcome = "errors" THEN {reduce_report(event)} ELSE {})
            /\ wk' = [wk EXCEPT ![w].pc = "log_write", ![w].snap = errorstack',
                                ![w].ret = "top"]
         \/ /\ outcome = "raise"
            /\ wk' = [wk EXCEPT ![w].pc = "handler"]
            /\ UNCHANGED <<processed_science_images, errorstack>>
         \/ /\ outcome = "hang"
            /\ wk' = [wk EXCEPT ![w].pc = "hung"]
            /\ UNCHANGED <<processed_science_images, errorstack>>
    /\ UNCHANGED <<workerFrame, midway_postprocess_complete, queue, error_file,
                   reductions, midway_runs>>
    /\ UNCHANGED notMonVars

\* line 446-451: the exception is made an ErrorReport and added to the stack,
\* which update_error_log then reads
WHandler(w) ==
    /\ Running
    /\ wk[w].pc = "handler"
    /\ errorstack' = errorstack \cup {monitor_report(wk[w].event)}
    /\ wk' = [wk EXCEPT ![w].pc = "log_write", ![w].snap = errorstack',
                        ![w].ret = "top"]
    /\ UNCHANGED <<workerFrame, midway_postprocess_complete, queue, error_file,
                   processed_science_images, reductions, midway_runs>>
    /\ UNCHANGED notMonVars

-----------------------------------------------------------------------------
(* PseudoList: DataBatch and Dataset as typed containers *)

\* the concrete types of the objects put in a container; an item of the
\* model is the concrete type of the object
ImageTypes == {"Image", "ImageSubclass"}

BatchTypes == {"ImageBatch", "SourceBatch"}

ItemTypes == ImageTypes \cup BatchTypes \cup {"SourceTable", "str"}

\* the container classes
ContainerClasses == {"ImageBatch", "Dataset"}

\* ImageBatch.data_type = Image, Dataset.data_type = DataBatch
data_type(cls) == IF cls = "ImageBatch" THEN "Image" ELSE "DataBatch"

\* isinstance(item, data_type)
isinstance(item, type) ==
    IF type = "Image" THEN item \in ImageTypes ELSE item \in BatchTypes

\* a variant of _append that tests the declared element type only
PseudoList_append_declared_only(c, item) ==
    IF ~isinstance(item, data_type(c.cls))
    THEN [items |-> c.items, raised |-> "ValueError"]
    ELSE [items |-> Append(c.items, item), raised |-> "none"]

\* a variant of _append that puts the item in the list before testing it
PseudoList_append_late_check(c, item) ==
    IF ~isinstance(item, data_type(c.cls))
    THEN [items |-> Append(c.items, item), raised |-> "ValueError"]
    ELSE IF Len(c.items) > 0 /\ c.items[1] # item
    THEN [items |-> Append(c.items, item), raised |-> "ValueError"]
    ELSE [items |-> Append(c.items, item), raised |-> "none"]

\* PseudoList._append: the items of the container after the call, and the
\* exception raised
PseudoList_append(c, item) ==
    IF ~isinstance(item, data_type(c.cls))
    THEN [items |-> c.items, raised |-> "ValueError"]
    ELSE IF Len(c.items) > 0 /\ c.items[1] # item
    THEN [items |-> c.items, raised |-> "ValueError"]
    ELSE [items |-> Append(c.items, item), raised |-> "none"]

\* for item in list: self.append(item), up to the first exception
RECURSIVE append_each(_, _)
append_each(c, list) ==
    IF list = <<>> THEN [items |-> c.items, raised |-> "none"]
    ELSE LET r == PseudoList_append(c, Head(list)) IN
         IF r.raised # "none" THEN r
         ELSE append_each([c EXCEPT !.items = r.items], Tail(list))

\* the arguments a container is constructed with: None, one object, a list
ListsUpTo(n) == UNION { [1..k -> ItemTypes] : k \in 0..n }

ConstructorInputs ==
    {[kind |-> "None", value |-> <<>>]}
    \cup { [kind |-> "object", value |-> <<t>>] : t \in ItemTypes }
    \cup { [kind |-> "list", value |-> l] : l \in ListsUpTo(2) }

\* PseudoList.__init__
PseudoList_init(cls, data_list) ==
    IF data_list.kind = "object" /\ ~isinstance(data_list.value[1], data_type(cls))
    THEN [items |-> <<>>, raised |-> "ValueError"]
    ELSE append_each([cls |-> cls, items |-> <<>>], data_list.value)

\* PseudoList.__add__
PseudoList_add(c, other) ==
    LET new == [cls |-> c.cls, items |-> <<>>]
        r == append_each(new, c.items) IN
    IF r.raised # "none" THEN r
    ELSE append_each([new EXCEPT !.items = r.items], other)

\* PseudoList.__iadd__
PseudoList_iadd(c, other) == [items |-> c.items \o other, raised |-> "none"]

\* PseudoList.__setitem__, list.__setitem__ for an index
PseudoList_setitem(c, key, value) ==
    IF key \in 1..Len(c.items)
    THEN [items |-> [c.items EXCEPT ![key] = value], raised |-> "none"]
    ELSE [items |-> c.items, raised |-> "IndexError"]

\* the statement cls(data_list), the first made: the variable holds the new
\* container unless the constructor raised
Construct ==
    \E cls \in ContainerClasses, data_list \in ConstructorInputs :
        LET r == PseudoList_init(cls, data_list) IN
        /\ last_op.op = "none"
        /\ container' = IF r.raised = "none"
                        THEN [cls |-> cls, items |-> r.items] ELSE container
        /\ last_op' = [op |-> "init", arg |-> data_list.value,
                       before |-> <<>>, raised |-> r.raised]
        /\ UNCHANGED notConVars

\* container.append(item)
DoAppend ==
    /\ Len(container.items) < MaxItems
    /\ \E item \in ItemTypes :
         LET r == PseudoList_append(container, item) IN
         /\ container' = [container EXCEPT !.items = r.items]
         /\ last_op' = [op |-> "append", arg |-> <<item>>,
                        before |-> container.items, raised |-> r.raised]
    /\ UNCHANGED notConVars

\* container = container + other
DoAdd ==
    /\ \E other \in ListsUpTo(2) :
         LET r == PseudoList_add(container, other) IN
         /\ Len(container.items) + Len(other) <= MaxItems
         /\ container' = IF r.raised = "none"
                         THEN [container EXCEPT !.items = r.items]
                         ELSE container
         /\ last_op' = [op |-> "add", arg |-> other,
                        before |-> container.items, raised |-> r.raised]
    /\ UNCHANGED notConVars

\* container += other
DoIAdd ==
    /\ \E other \in ListsUpTo(2) :
         LET r == PseudoList_iadd(container, other) IN
         /\ Len(container.items) + Len(other) <= MaxItems
         /\ container' = [container EXCEPT !.items = r.items]
         /\ last_op' = [op |-> "iadd", arg |-> other,
                        before |-> container.items, raised |-> r.raised]
    /\ UNCHANGED notConVars

\* container[key] = value
DoSetItem ==
    /\ \E key \in 1..(Len(container.items) + 1), value \in ItemTypes :
         LET r == PseudoList_setitem(container, key, value) IN
         /\ container' = [container EXCEPT !.items = r.items]
         /\ last_op' = [op |-> "setitem", arg |-> <<value>>,
                        before |-> container.items, raised |-> r.raised]
    /\ UNCHANGED notConVars

-----------------------------------------------------------------------------
(* Image scratch files: Image.__init__, set_data, __del__, copy.deepcopy,  *)
(* clean_cache and the finally clause of __main__                          *)

\* the BASENAME of the images that are made
ScratchNames == {<<CharA>>, <<CharA + 1>>}

\* the payloads
Payloads == {0, 1}

\* no file at a path
NoData == <<>>

\* Image.get_cache_path: the digest of str(Time.now()) followed by the name;
\* the time string has a fixed length
Image_get_cache_path(time, name) == sha1_hexdigest(<<time>> \o name)

\* the paths a scratch file can have
ScratchPaths ==
    { Image_get_cache_path(t, n) : t \in 0..MaxImages, n \in ScratchNames }

\* Path.unlink(missing_ok=True)
unlink(files_, path) == [files_ EXCEPT ![path] = NoData]

\* np.save(self.cache_path, data)
np_save(files_, path, data) == [files_ EXCEPT ![path] = <<data>>]

\* list.remove(x): the list without the first entry equal to x
RECURSIVE list_remove(_, _)
list_remove(list, x) ==
    IF list = <<>> THEN <<>>
    ELSE IF Head(list) = x THEN Tail(list)
    ELSE <<Head(list)>> \o list_remove(Tail(list), x)

\* the entries of a list
Entries(list) == { list[k] : k \in 1..Len(list) }

\* clean_cache: x.unlink() for each entry of Image.cache_files, in order, up
\* to the first one whose file is missing, which raises FileNotFoundError;
\* then Image.cache_files = []
RECURSIVE clean_cache(_, _)
clean_cache(files_, registry) ==
    IF registry = <<>>
    THEN [scratch |-> files_, cache_files |-> <<>>, raised |-> "none"]
    ELSE IF files_[Head(registry)] = NoData
    THEN [scratch |-> files_, cache_files |-> registry,
          raised |-> "FileNotFoundError"]
    ELSE LET r == clean_cache(unlink(files_, Head(registry)), Tail(registry)) IN
         [r EXCEPT !.cache_files =
              IF r.raised = "none" THEN <<>> ELSE registry]

scrFrame == <<session, cleaned>>

\* the clock moves on to the next instant that str(Time.now()) tells apart
ClockTick ==
    /\ session = "running"
    /\ clock < Len(instances)
    /\ clock' = clock + 1
    /\ UNCHANGED <<instances, scratch, cache_files, registered, scrFrame>>
    /\ UNCHANGED notScrVars

\* Image(data, header)
Image_init ==
    /\ session = "running"
    /\ Len(instances) < MaxImages
    /\ \E name \in ScratchNames, data \in Payloads :
         LET path == Image_get_cache_path(clock, name) IN
         /\ instances' = Append(instances,
                [cache_path |-> path, live |-> TRUE, copy |-> FALSE])
         /\ cache_files' = Append(cache_files, path)
         /\ registered' = registered \cup {path}
         /\ scratch' = np_save(scratch, path, data)
    /\ UNCHANGED <<clock, scrFrame>>
    /\ UNCHANGED notScrVars

\* copy.deepcopy(image): Image defines no __deepcopy__, so the copy gets a
\* copy of every attribute, cache_path included, and __init__ is not run
copy_deepcopy ==
    /\ session = "running"
    /\ Len(instances) < MaxImages
    /\ \E i \in 1..Len(instances) :
         /\ instances[i].live
         /\ instances' = Append(instances,
                [cache_path |-> instances[i].cache_path, live |-> TRUE,
                 copy |-> TRUE])
    /\ UNCHANGED <<clock, scratch, cache_files, registered, scrFrame>>
    /\ UNCHANGED notScrVars

\* image.set_data(data)
Image_set_data ==
    /\ session = "running"
    /\ \E i \in 1..Len(instances), data \in Payloads :
         /\ instances[i].live
         /\ scratch' = np_save(scratch, instances[i].cache_path, data)
    /\ UNCHANGED <<clock, instances, cache_files, registered, scrFrame>>
    /\ UNCHANGED notScrVars

\* Image.__del__: the file is unlinked if it is there, and the first entry
\* for the path is taken out of the registry (a ValueError raised in __del__
\* when there is none is ignored by the interpreter)
Image_del ==
    /\ session = "running"
    /\ \E i \in 1..Len(instances) :
         /\ instances[i].live
         /\ instances' = [instances EXCEPT ![i].live = FALSE]
         /\ scratch' = unlink(scratch, instances[i].cache_path)
         /\ cache_files' = list_remove(cache_files, instances[i].cache_path)
    /\ UNCHANGED <<clock, registered, scrFrame>>
    /\ UNCHANGED notScrVars

\* __main__: the try block ends, by returning or by raising, and the finally
\* clause calls clean_cache
MainFinallyCleanCache ==
    /\ session = "running"
    /\ \E outcome \in {"returned", "raised"} :
         LET r == clean_cache(scratch, cache_files) IN
         /\ session' = outcome
         /\ cleaned' = r.raised
         /\ scratch' = r.scratch
         /\ cache_files' = r.cache_files
    /\ UNCHANGED <<clock, instances, registered>>
    /\ UNCHANGED notScrVars

-----------------------------------------------------------------------------
(* Processor classes: the registry and the prerequisite check *)

\* the classes that derive from BaseProcessor
ProcessorClasses ==
    {"BaseImageProcessor", "BaseDataframeProcessor", "Sextractor", "Scamp",
     "PSFex", "BaseDatabaseExporter", "DatabaseImageExporter",
     "DatabaseDataframeExporter", "BrightStarCandidateMask"}

\* the classes a pipeline instantiates
ConcreteProcessors ==
    {"Sextractor", "Scamp", "PSFex", "DatabaseImageExporter",
     "DatabaseDataframeExporter", "BrightStarCandidateMask"}

\* the bases in the class statement, in the order written
bases(cls) ==
    CASE cls = "BaseImageProcessor" -> <<"BaseProcessor">>
      [] cls = "BaseDataframeProcessor" -> <<"BaseProcessor">>
      [] cls = "Sextractor" -> <<"BaseProcessor">>
      [] cls = "Scamp" -> <<"BaseImageProcessor">>
      [] cls = "PSFex" -> <<"BaseImageProcessor">>
      [] cls = "BaseDatabaseExporter" -> <<"BaseProcessor">>
      [] cls = "DatabaseImageExporter" ->
            <<"BaseDatabaseExporter", "BaseImageProcessor">>
      [] cls = "DatabaseDataframeExporter" ->
            <<"BaseDatabaseExporter", "BaseDataframeProcessor">>
      [] cls = "BrightStarCandidateMask" -> <<"BaseDataframeProcessor">>
      [] OTHER -> <<>>

\* BaseProcessor.base_key is a property object: what a class that never
\* assigns base_key gets when the attribute is read on the class
PropertyObject == "<property>"

\* the base_key a class body assigns, or PropertyObject when it assigns none
own_key(cls) ==
    CASE cls = "Sextractor" -> "sextractor"
      [] cls = "Scamp" -> "scamp"
      [] cls = "PSFex" -> "psfex"
      [] cls = "BaseDatabaseExporter" -> "dbexporter"
      [] OTHER -> PropertyObject

\* cls.base_key: the attribute of the class or of the first base that has it
RECURSIVE base_key(_)
base_key(cls) ==
    IF own_key(cls) # PropertyObject \/ bases(cls) = <<>>
    THEN own_key(cls)
    ELSE LET found == { k \in 1..Len(bases(cls)) :
                            base_key(bases(cls)[k]) # PropertyObject }
         IN  IF found = {}
             THEN PropertyObject
             ELSE base_key(bases(cls)[CHOOSE k \in found :
                                          \A m \in found : k <= m])

RegistryKeys == { base_key(cls) : cls \in ProcessorClasses }

NoClass == "<absent>"

\* issubclass(cls, of)
RECURSIVE issubclass(_, _)
issubclass(cls, of) ==
    \/ cls = of
    \/ \E k \in 1..Len(bases(cls)) : issubclass(bases(cls)[k], of)

\* BaseProcessor.__init_subclass__: cls.subclasses[cls.base_key] = cls
init_subclass(registry, cls) == [registry EXCEPT ![base_key(cls)] = cls]

procFrame == <<configuration, preceding_steps, position, steps_set, last_check>>

\* the classes whose statements have run when the statement of cls runs:
\* those above it in its module and those of the modules its module imports
defined_before(cls) ==
    CASE cls = "BaseImageProcessor" -> {}
      [] cls = "BaseDataframeProcessor" -> {"BaseImageProcessor"}
      [] cls \in {"Scamp", "PSFex"} ->
            {"BaseImageProcessor", "BaseDataframeProcessor", "Sextractor"}
      [] cls = "DatabaseImageExporter" ->
            {"BaseImageProcessor", "BaseDataframeProcessor",
             "BaseDatabaseExporter"}
      [] cls = "DatabaseDataframeExporter" ->
            {"BaseImageProcessor", "BaseDataframeProcessor",
             "BaseDatabaseExporter", "DatabaseImageExporter"}
      [] OTHER -> {"BaseImageProcessor", "BaseDataframeProcessor"}

\* a class statement runs, while the modules are imported and before any
\* configuration is resolved
DefineClass ==
    \E cls \in ProcessorClasses \ defined :
        /\ configuration = <<>>
        /\ defined_before(cls) \subseteq defined
        /\ defined' = defined \cup {cls}
        /\ subclasses' = init_subclass(subclasses, cls)
        /\ UNCHANGED procFrame
        /\ UNCHANGED notProcVars

\* the processor classes the configurations are drawn from
StepTypes == {"Sextractor", "Scamp", "PSFex", "DatabaseImageExporter"}

ResolvedConfigurations ==
    UNION { [1..n -> StepTypes] : n \in 1..MaxSteps }

\* the count of Sextractor instances among the preceding steps
count_sextractor(preceding) ==
    Cardinality({ k \in 1..Len(preceding) :
                     issubclass(preceding[k], "Sextractor") })

\* check_prerequisites of a processor of class cls: what it raises
check_prerequisites(cls, preceding) ==
    IF cls \in {"Scamp", "PSFex"}
    THEN IF count_sextractor(preceding) < 1 THEN "ValueError" ELSE "none"
    ELSE "none"

\* steps.index(key): the first position that holds the key, 0 when none does
list_index(list, key) ==
    LET at == { k \in 1..Len(list) : list[k] = key }
    IN  IF at = {} THEN 0 ELSE CHOOSE k \in at : \A m \in at : k <= m

\* the prerequisite loop of the __init__ of the preprocessing BaseProcessor
preprocessing_init(key, requires, image_steps) ==
    IF list_index(image_steps, key) = 0
    THEN "ValueError"
    ELSE LET before == SubSeq(image_steps, 1, list_index(image_steps, key) - 1)
         IN  IF \E x \in requires : x \notin Entries(before)
             THEN "ValueError"
             ELSE "none"

NoCheck == [kind |-> "none", at |-> 0, requires |-> {}, result |-> "none"]

\* a configuration is resolved into a list of processors
Configure ==
    /\ configuration = <<>>
    /\ \E c \in ResolvedConfigurations :
          /\ Entries(c) \subseteq defined
          /\ configuration' = c
    /\ UNCHANGED <<defined, subclasses, preceding_steps, position, steps_set,
                   last_check>>
    /\ UNCHANGED notProcVars

\* the next processor is told the steps before it
set_preceding_steps ==
    /\ last_check.result = "none"
    /\ position < Len(configuration)
    /\ ~steps_set
    /\ preceding_steps' = SubSeq(configuration, 1, position)
    /\ steps_set' = TRUE
    /\ UNCHANGED <<defined, subclasses, configuration, position, last_check>>
    /\ UNCHANGED notProcVars

\* and its check_prerequisites is called
CheckPrerequisites ==
    /\ steps_set
    /\ LET result ==
               check_prerequisites(configuration[position + 1], preceding_steps)
       IN  /\ last_check' = [kind |-> "check_prerequisites",
                             at |-> position + 1, requires |-> {},
                             result |-> result]
           /\ position' = IF result = "none" THEN position + 1 ELSE position
    /\ steps_set' = FALSE
    /\ UNCHANGED <<defined, subclasses, configuration, preceding_steps>>
    /\ UNCHANGED notProcVars

\* a preprocessing processor is constructed for the next step, with the keys
\* of the configuration as instrument_vars["image_steps"]
PreprocessingInit ==
    /\ last_check.result = "none"
    /\ position < Len(configuration)
    /\ ~steps_set
    /\ LET image_steps == [k \in 1..Len(configuration) |->
                              base_key(configuration[k])]
       IN  \E requires \in {{}} \cup { {base_key(t)} : t \in StepTypes } :
              LET result == preprocessing_init(image_steps[position + 1],
                                               requires, image_steps)
              IN  /\ last_check' = [kind |-> "__init__", at |-> position + 1,
                                    requires |-> requires, result |-> result]
                  /\ position' = IF result = "none"
                                 THEN position + 1 ELSE position
    /\ UNCHANGED <<defined, subclasses, configuration, preceding_steps,
                   steps_set>>
    /\ UNCHANGED notProcVars

-----------------------------------------------------------------------------
(* PostgresUser.export_to_db on a table with a primary key, a unique column
   and a sequence column, as the proc table has *)

POSTGRES_DUPLICATE_PROTOCOLS == {"fail", "ignore", "replace"}

\* the values of duplicate_protocol a caller passes
ProtocolInputs == POSTGRES_DUPLICATE_PROTOCOLS \cup {"skip"}

\* the paths the images exported were saved to
SavePaths == {"a.fits", "b.fits"}

\* value_dict, with values the pydantic model accepts: procid is the primary
\* key, savepath a unique column, zp_auto any other column; urawid_exists is
\* whether the foreign key refers to a row of raw
ValueDicts ==
    [procid : 1..MaxKeys, savepath : SavePaths, zp_auto : {0, 1},
     urawid_exists : BOOLEAN]

\* a row of the table: the columns of the value_dict and the sequence column
make_row(new, uprocid) ==
    [procid |-> new.procid, savepath |-> new.savepath,
     zp_auto |-> new.zp_auto, uprocid |-> uprocid]

\* the rows that hold the primary key or the unique value of the new entry
conflicts(tbl, new) ==
    { r \in tbl : r.procid = new.procid \/ r.savepath = new.savepath }

\* BaseDB.insert_entry: INSERT ... RETURNING the sequence columns
insert_entry(tbl, seq, new) ==
    IF conflicts(tbl, new) # {}
    THEN [raised |-> "UniqueViolation", table |-> tbl, seq |-> seq,
          values |-> <<>>]
    ELSE IF ~new.urawid_exists
    THEN [raised |-> "ForeignKeyViolation", table |-> tbl, seq |-> seq,
          values |-> <<>>]
    ELSE [raised |-> "none", table |-> tbl \cup {make_row(new, seq)},
          seq |-> seq + 1, values |-> <<seq>>]

\* the sequence values of a set of at most one row, as a list
values_of(rows) ==
    IF rows = {} THEN <<>> ELSE <<(CHOOSE r \in rows : TRUE).uprocid>>

\* sql_model().select_query(compare_keys=[primary key], ...)
select_query(tbl, primary_key_val) ==
    values_of({ r \in tbl : r.procid = primary_key_val })

\* BaseDB.update_entry: UPDATE ... WHERE primary key = primary_key_val
\* RETURNING the sequence columns
update_entry(tbl, new, primary_key_val) ==
    LET hit == { r \in tbl : r.procid = primary_key_val }
        rest == tbl \ hit
        updated == { make_row(new, r.uprocid) : r \in hit }
    IN  IF hit # {} /\ \E r \in rest : r.savepath = new.savepath
        THEN [raised |-> "UniqueViolation", table |-> tbl, values |-> <<>>]
        ELSE [raised |-> "none", table |-> rest \cup updated,
              values |-> values_of(updated)]

\* export_to_db: what it raises, the table afterwards and what it returns
export_to_db(tbl, seq, new, duplicate_protocol) ==
    IF duplicate_protocol \notin POSTGRES_DUPLICATE_PROTOCOLS
    THEN [raised |-> "AssertionError", table |-> tbl, seq |-> seq,
          values |-> <<>>]
    ELSE LET ins == insert_entry(tbl, seq, new) IN
         IF ins.raised = "none" THEN ins
         ELSE IF ins.raised # "UniqueViolation"
         THEN [ins EXCEPT !.raised = "IntegrityError"]
         ELSE IF duplicate_protocol = "fail"
         THEN [ins EXCEPT !.raised = "UniqueViolation"]
         ELSE IF duplicate_protocol = "ignore"
         THEN [raised |-> "none", table |-> tbl, seq |-> seq,
               values |-> select_query(tbl, new.procid)]
         ELSE LET upd == update_entry(tbl, new, new.procid) IN
              [raised |-> IF upd.raised = "none" THEN "none"
                          ELSE "IntegrityError",
               table |-> upd.table, seq |-> seq, values |-> upd.values]

NoExport == [protocol |-> "none"]

\* one call of export_to_db
ExportToDb ==
    /\ \E new \in ValueDicts, duplicate_protocol \in ProtocolInputs :
         LET r == export_to_db(db_table, sequence, new, duplicate_protocol)
         IN  /\ db_table' = r.table
             /\ sequence' = r.seq
             /\ last_export' = [protocol |-> duplicate_protocol, new |-> new,
                                before |-> db_table, raised |-> r.raised,
                                values |-> r.values]
    /\ UNCHANGED notDbVars

-----------------------------------------------------------------------------
(* Specifications *)

\* no reduce_images run in progress
PipelineIdle ==
    /\ steps = <<>>
    /\ catch_all_errors = TRUE
    /\ dataset = <<>>
    /\ err_stack = <<>>
    /\ step = 1
    /\ pc = "idle"
    /\ trace = <<>>

\* a file left in the cache directory by an earlier session, written by
\* another tool without RAWPATH and BASENAME
PremadeFile == [data |-> <<1>>, name |-> <<>>, raw |-> <<>>, savepath |-> <<>>]

\* the processor as constructed, no call made; the cache directory is empty
\* or holds an earlier file for the first fingerprint
CacheIdle(flags, premade) ==
    /\ try_load_cache = flags[1]
    /\ write_to_cache = flags[2]
    /\ overwrite = flags[3]
    /\ files = [p \in CachePaths |->
                  IF premade /\ p = get_cache_path(LoadedBatch(1, 1))
                  THEN <<PremadeFile>> ELSE NoFile]
    /\ calls = <<>>
    /\ wcall = [w \in Workers |-> 0]

\* ProcessorWithCache.__init__ defaults: try_load_cache, write_to_cache, overwrite
DefaultFlags == <<TRUE, TRUE, TRUE>>

\* a Monitor about to be constructed with the given hours; no thread started
MonitorNew(hrs, email) ==
    /\ args = hrs
    /\ midway_postprocess_hours = 0
    /\ final_postprocess_hours = 0
    /\ warned = FALSE
    /\ email_to_send = email
    /\ now = 0
    /\ midway_postprocess_complete = FALSE
    /\ main = [pc |-> "new", i |-> 0, exc |-> FALSE, snap |-> {}]
    /\ observer = "none"
    /\ queue = <<>>
    /\ ncreated = 0
    /\ wk = [w \in Workers |->
               [pc |-> "none", event |-> NoEvent, snap |-> {}, ret |-> "top"]]
    /\ errorstack = {}
    /\ error_file = {}
    /\ processed_science_images = <<>>
    /\ reductions = <<>>
    /\ midway_runs = 0
    /\ final_runs = <<>>

\* no Monitor in use
MonitorIdle == MonitorNew(<<0, 0>>, FALSE)

\* an empty ImageBatch, on which no operation has been made
ContainerIdle ==
    /\ container = [cls |-> "ImageBatch", items |-> <<>>]
    /\ last_op = [op |-> "none", arg |-> <<>>, before |-> <<>>,
                  raised |-> "none"]

\* a session in which no Image has been made
ScratchIdle ==
    /\ instances = <<>>
    /\ scratch = [p \in ScratchPaths |-> NoData]
    /\ cache_files = <<>>
    /\ registered = {}
    /\ clock = 0
    /\ session = "running"
    /\ cleaned = "none"

\* no processor class is defined and no configuration is resolved
ProcIdle ==
    /\ defined = {}
    /\ subclasses = [k \in RegistryKeys |-> NoClass]
    /\ configuration = <<>>
    /\ preceding_steps = <<>>
    /\ position = 0
    /\ steps_set = FALSE
    /\ last_check = NoCheck

\* the table is empty and nothing has been exported
DbIdle ==
    /\ db_table = {}
    /\ sequence = 1
    /\ last_export = NoExport

\* no batch is being fingerprinted
HashIdle ==
    /\ himages = <<>>
    /\ hother = <<>>
    /\ hfp = <<>>
    /\ hfresh = FALSE

InitPipeline ==
    /\ steps \in Configurations
    /\ catch_all_errors \in BOOLEAN
    /\ dataset \in InputDatasets
    /\ err_stack = <<>>
    /\ step = 1
    /\ pc = "running"
    /\ trace = <<>>
    /\ CacheIdle(DefaultFlags, FALSE)
    /\ HashIdle
    /\ MonitorIdle
    /\ ContainerIdle
    /\ ScratchIdle
    /\ ProcIdle
    /\ DbIdle

NextPipeline == ReduceStep \/ ReduceReturn

SpecPipeline == InitPipeline /\ [][NextPipeline]_vars

InitCache ==
    /\ PipelineIdle
    /\ \E flags \in BOOLEAN \X BOOLEAN \X BOOLEAN, premade \in BOOLEAN :
          CacheIdle(flags, premade)
    /\ HashIdle
    /\ MonitorIdle
    /\ ContainerIdle
    /\ ScratchIdle
    /\ ProcIdle
    /\ DbIdle

NextCache ==
    \E w \in Workers :
        \/ GetCachePath(w)
        \/ CheckExists(w)
        \/ LoadCached(w)
        \/ MakeImage(w)
        \/ SaveAndReturn(w)
        \/ ReturnUnsaved(w)

SpecCache == InitCache /\ [][NextCache]_vars

InitHash ==
    /\ PipelineIdle
    /\ CacheIdle(DefaultFlags, FALSE)
    /\ himages \in HashInputs
    /\ hother = deepcopy(himages)
    /\ hfp = <<>>
    /\ hfresh = FALSE
    /\ MonitorIdle
    /\ ContainerIdle
    /\ ScratchIdle
    /\ ProcIdle
    /\ DbIdle

NextHash == HashSwap \/ HashSetData \/ HashStamp \/ HashLoad \/ HashBoth

SpecHash == InitHash /\ [][NextHash]_vars

\* the hours the Monitor of a realtime run is configured with
MonitorArgs == {<<0, 1>>}

InitConstruct ==
    /\ PipelineIdle
    /\ CacheIdle(DefaultFlags, FALSE)
    /\ HashIdle
    /\ \E hrs \in ConfiguredHours \X ConfiguredHours : MonitorNew(hrs, FALSE)
    /\ ContainerIdle
    /\ ScratchIdle
    /\ ProcIdle
    /\ DbIdle

NextConstruct == MonitorInit

SpecConstruct == InitConstruct /\ [][NextConstruct]_vars

InitMonitor ==
    /\ PipelineIdle
    /\ CacheIdle(DefaultFlags, FALSE)
    /\ HashIdle
    /\ \E hrs \in MonitorArgs, email \in BOOLEAN : MonitorNew(hrs, email)
    /\ ContainerIdle
    /\ ScratchIdle
    /\ ProcIdle
    /\ DbIdle

MainStep == MonitorInit \/ StartRealtime \/ MainLoopExit \/ MainFinally \/ MainLogWrite

WorkerStep(w) ==
    \/ WCheckMidway(w)
    \/ WSetFlag(w)
    \/ WLogWrite(w)
    \/ WSend(w)
    \/ WGet(w)
    \/ WLoad(w)
    \/ WReduce(w)
    \/ WHandler(w)

NextMonitor ==
    \/ MainStep
    \/ MainInterrupt
    \/ Tick
    \/ OnCreated
    \/ \E w \in Workers : WorkerStep(w)

SpecMonitor == InitMonitor /\ [][NextMonitor]_vars

\* the main thread and the clock keep running; nothing is assumed of the
\* workers and of the watcher's events
SpecMonitorLive == SpecMonitor /\ WF_vars(MainStep) /\ WF_vars(Tick)

InitContainer ==
    /\ PipelineIdle
    /\ CacheIdle(DefaultFlags, FALSE)
    /\ HashIdle
    /\ MonitorIdle
    /\ ContainerIdle
    /\ ScratchIdle
    /\ ProcIdle
    /\ DbIdle

NextContainer == Construct \/ DoAppend \/ DoAdd \/ DoIAdd \/ DoSetItem

SpecContainer == InitContainer /\ [][NextContainer]_vars

InitScratch ==
    /\ PipelineIdle
    /\ CacheIdle(DefaultFlags, FALSE)
    /\ HashIdle
    /\ MonitorIdle
    /\ ContainerIdle
    /\ ScratchIdle
    /\ ProcIdle
    /\ DbIdle

NextScratch ==
    \/ ClockTick
    \/ Image_init
    \/ copy_deepcopy
    \/ Image_set_data
    \/ Image_del
    \/ MainFinallyCleanCache

SpecScratch == InitScratch /\ [][NextScratch]_vars

InitProcessors ==
    /\ PipelineIdle
    /\ CacheIdle(DefaultFlags, FALSE)
    /\ HashIdle
    /\ MonitorIdle
    /\ ContainerIdle
    /\ ScratchIdle
    /\ ProcIdle
    /\ DbIdle

NextProcessors ==
    \/ DefineClass
    \/ Configure
    \/ set_preceding_steps
    \/ CheckPrerequisites
    \/ PreprocessingInit

SpecProcessors == InitProcessors /\ [][NextProcessors]_vars

InitExport ==
    /\ PipelineIdle
    /\ CacheIdle(DefaultFlags, FALSE)
    /\ HashIdle
    /\ MonitorIdle
    /\ ContainerIdle
    /\ ScratchIdle
    /\ ProcIdle
    /\ DbIdle

NextExport == ExportToDb

SpecExport == InitExport /\ [][NextExport]_vars

-----------------------------------------------------------------------------
(* Properties of a reduce_images run (SpecPipeline) *)

\* the BASENAMEs of the blocks of a batch, and of a Dataset
BatchNames(batch) == { batch[j].name : j \in 1..Len(batch) }

DatasetNames(ds) == UNION { BatchNames(ds[b]) : b \in 1..Len(ds) }

\* the file names of the raw images of the blocks of a batch
BatchRawNames(batch) ==
    UNION { { PathName(batch[j].raw[k]) : k \in 1..Len(batch[j].raw) } :
              j \in 1..Len(batch) }

\* the indices of the batches whose apply raised in one base_apply call
RaisedIdx(t) == { i \in 1..Len(t.attempts) : t.attempts[i].raised }

\* the batches base_apply must hand on, from its record of apply calls
RECURSIVE HandedOn(_, _)
HandedOn(attempts, i) ==
    IF i > Len(attempts) THEN <<>>
    ELSE (IF ~attempts[i].raised THEN <<attempts[i].batch_out>>
          ELSE IF attempts[i].exc = "NoncriticalProcessingError"
          THEN <<attempts[i].batch_in>>
          ELSE <<>>)
         \o HandedOn(attempts, i + 1)

EndsWith(s, e) ==
    /\ Len(s) >= Len(e)
    /\ SubSeq(s, Len(s) - Len(e) + 1, Len(s)) = e

\* C3: when apply returns, every block of the returned batch is a block of the
\* input whose history has grown by exactly P's key (and separator) and that
\* was stamped exactly once; when the transformation raises, the batch is left
\* as it was: no history entry, no provenance stamp.
C3_HistoryStampedOnSuccessOnly ==
    \A s \in 1..Len(trace) :
        \A i \in 1..Len(trace[s].attempts) :
            LET a == trace[s].attempts[i]
                key == trace[s].proc.key
            IN /\ ~a.raised =>
                   \A j \in 1..Len(a.batch_out) :
                       /\ EndsWith(a.batch_out[j].hist, key \o <<COMMA>>)
                       /\ \E j0 \in 1..Len(a.batch_in) :
                            /\ a.batch_in[j0].name = a.batch_out[j].name
                            /\ a.batch_out[j].hist = a.batch_in[j0].hist \o key \o <<COMMA>>
                            /\ a.batch_out[j].stamps = a.batch_in[j0].stamps + 1
               /\ a.raised => a.batch_out = a.batch_in

\* C3 witness: a second step has been applied; one batch, already stamped by
\* the first step, was returned stamped again, and the transformation raised
\* for another non-empty batch.
C3_Witness ==
    /\ Len(trace) >= 2
    /\ \E i, i2 \in 1..Len(trace[2].attempts) :
          /\ ~trace[2].attempts[i].raised
          /\ Len(trace[2].attempts[i].batch_out) > 0
          /\ trace[2].attempts[i].batch_in[1].stamps = 1
          /\ trace[2].attempts[i2].raised
          /\ Len(trace[2].attempts[i2].batch_in) > 0

RECURSIVE KthOf(_, _)
KthOf(S, k) ==
    LET m == CHOOSE x \in S : \A y \in S : x <= y
    IN IF k = 1 THEN m ELSE KthOf(S \ {m}, k - 1)

\* C5: the reports of a base_apply call are, in order, those of the batches
\* whose apply raised; each names the processor of the step and lists exactly
\* the raw image file names of the blocks of its batch, none of which belongs
\* to another batch of the Dataset.
C5_ReportNamesFailingBatch ==
    \A s \in 1..Len(trace) :
        LET t == trace[s] IN
        /\ Len(t.err_stack) = Cardinality(RaisedIdx(t))
        /\ \A k \in 1..Len(t.err_stack) :
             LET i == KthOf(RaisedIdx(t), k)
                 rep == t.err_stack[k]
                 names == { rep.contents[x] : x \in 1..Len(rep.contents) }
             IN /\ rep.processor_name = steps[s].module
                /\ rep.error = t.attempts[i].exc
                /\ names = BatchRawNames(t.input[i])
                /\ Len(rep.contents) = Cardinality(BatchRawNames(t.input[i]))
                /\ \A b \in (1..Len(t.input)) \ {i} :
                       names \cap BatchRawNames(t.input[b]) = {}

\* C5 witness: a report for the second of three batches, a batch of two blocks
\* with three raw images in all, while the other batches are not empty.
C5_Witness ==
    \E s \in 1..Len(trace) :
        /\ Len(trace[s].input) = 3
        /\ RaisedIdx(trace[s]) = {2}
        /\ Len(trace[s].input[2]) = 2
        /\ Len(trace[s].input[1]) > 0
        /\ Len(trace[s].err_stack) = 1
        /\ Len(trace[s].err_stack[1].contents) = 3

-----------------------------------------------------------------------------
(* Properties of get_cache_file (SpecCache) *)

CallIds == 1..Len(calls)

\* call a had returned when call b was entered
Before(a, b) == a \in calls[b].after

SamePath(a, b) == calls[a].path = calls[b].path

\* the calls that executed make_image for the file at a path
Computed(path) == { c \in CallIds : calls[c].made /\ calls[c].path = path }

\* C7 as claimed: with try_load_cache enabled, of two calls made one after the
\* other for the same fingerprint at most one invokes make_image, and both
\* return the same artifact.
C7_TwiceComputesOnce ==
    (/\ try_load_cache
     /\ Len(calls) = 2
     /\ Before(1, 2)
     /\ SamePath(1, 2)
     /\ calls[2].pos = "done") =>
        /\ ~(calls[1].made /\ calls[2].made)
        /\ calls[2].result = calls[1].result

\* C7 amended: with try_load_cache enabled, and write_to_cache enabled or the
\* file already there at the first call's existence check, a call entered
\* after a call for the same fingerprint has returned finds the file, does not
\* invoke make_image and writes nothing; it returns the artifact of the first
\* call, provided no other call wrote the file in between.
C7_SecondCallLoads ==
    try_load_cache =>
        \A a, b \in CallIds :
            (/\ Before(a, b)
             /\ SamePath(a, b)
             /\ write_to_cache \/ calls[a].exists
             /\ calls[b].pos # "path") =>
                /\ calls[b].exists
                /\ ~calls[b].made
                /\ calls[b].pos \in {"checked", "done"}
                /\ calls[b].pos = "done" =>
                      /\ calls[b].loaded
                      /\ ~calls[b].wrote
                      /\ calls[b].wfix = calls[a].wfix =>
                            calls[b].result = calls[a].result

\* C7 witness: the first call computed and stored the product; a later call,
\* for a batch with the same fingerprint and another payload, loaded it and
\* returned the same artifact.
C7_Witness ==
    /\ Len(calls) >= 2
    /\ Before(1, 2)
    /\ SamePath(1, 2)
    /\ calls[1].images # calls[2].images
    /\ calls[1].made
    /\ calls[1].wrote
    /\ calls[2].loaded
    /\ calls[2].result = calls[1].result

\* C8 as claimed: with loading and writing enabled, make_image is executed at
\* most once for each fingerprint, under every interleaving.
C8_AtMostOneComputation ==
    (try_load_cache /\ write_to_cache) =>
        \A p \in CachePaths : Cardinality(Computed(p)) <= 1

\* C8 amended: with loading and writing enabled, two calls compute the product
\* of one fingerprint only if they overlap: they run on different workers,
\* neither had returned when the other was entered, and each made its
\* existence check before any file was written; so a fingerprint is computed
\* at most once per concurrently running worker.
C8_ComputedTwiceOnlyWhenOverlapping ==
    (try_load_cache /\ write_to_cache) =>
        /\ \A a, b \in CallIds :
              (a # b /\ SamePath(a, b) /\ calls[a].made /\ calls[b].made) =>
                  /\ ~Before(a, b)
                  /\ ~Before(b, a)
                  /\ calls[a].worker # calls[b].worker
                  /\ ~calls[a].exists
                  /\ calls[a].wseen = 0
        /\ \A p \in CachePaths : Cardinality(Computed(p)) <= Cardinality(Workers)

\* C8 witness: with every flag enabled two workers both computed the product
\* of the same fingerprint and both wrote it.
C8_Witness ==
    /\ try_load_cache
    /\ write_to_cache
    /\ \E a, b \in CallIds :
          /\ a # b
          /\ SamePath(a, b)
          /\ calls[a].made /\ calls[b].made
          /\ calls[a].wrote /\ calls[b].wrote

\* C9 as claimed: a file that exists is rewritten only by a call made with
\* overwrite set, under every interleaving.
C9_RewriteOnlyWithOverwrite ==
    \A c \in CallIds : calls[c].rewrote => overwrite

\* C9 amended: a file is written only by a call with write_to_cache enabled
\* that computed the product, never by a call that returns the cached
\* artifact; a file that existed when the call was entered is rewritten only
\* with overwrite set; without it, a call rewrites a file only when its own
\* existence check found none and an overlapping call created the file before
\* it wrote. Nothing else changes the files.
C9_WritesFollowFlags ==
    /\ \A c \in CallIds :
          /\ calls[c].wrote => (write_to_cache /\ calls[c].made /\ ~calls[c].loaded)
          /\ calls[c].loaded => (~calls[c].wrote /\ ~calls[c].made)
          /\ (calls[c].rewrote /\ ~overwrite) =>
                /\ ~calls[c].exists
                /\ \E d \in CallIds :
                      /\ d # c
                      /\ SamePath(c, d)
                      /\ calls[d].wrote
                      /\ ~Before(d, c)
          /\ (calls[c].wrote /\ calls[c].exists) => overwrite
    /\ \A p \in CachePaths :
          /\ Writes(p) = 0 => files[p] \in {NoFile, <<PremadeFile>>}
          /\ Writes(p) > 0 =>
                \E c \in CallIds : calls[c].wrote /\ files[p] = <<calls[c].result>>

\* C9 witness: without overwrite, two overlapping calls both found no file;
\* the second of them to write rewrote the file the first had created, and a
\* later call returned the cached artifact without writing.
C9_Witness ==
    /\ ~overwrite
    /\ \E c, d \in CallIds :
          /\ calls[c].rewrote
          /\ ~calls[c].exists
          /\ calls[d].loaded
          /\ SamePath(c, d)

-----------------------------------------------------------------------------
(* Properties of the fingerprint (SpecHash) *)

\* the (BASENAME, CALSTEPS) pairs of a batch
Pairs(images) == { <<images[j].name, images[j].hist>> : j \in 1..Len(images) }

\* how many images of a batch carry a pair
PairCount(images, pr) ==
    Cardinality({ j \in 1..Len(images) : <<images[j].name, images[j].hist>> = pr })

\* the two batches hold the same collection of pairs
SamePairs(x, y) ==
    \A pr \in Pairs(x) \cup Pairs(y) : PairCount(x, pr) = PairCount(y, pr)

\* C10: two batches that hold the same (BASENAME, CALSTEPS) pairs get the same
\* fingerprint, whatever the order of their images, the objects they are made
\* of and their payloads; and a step that leaves the pairs of a batch as they
\* are (a reordering, a set_data) leaves its fingerprint as it is.
C10_FingerprintOfPairsOnly ==
    /\ []((hfresh /\ SamePairs(himages, hother)) => hfp[1] = hfp[2])
    /\ [][SamePairs(hother, hother') => get_hash(hother') = get_hash(hother)]_vars

\* C10 witness: the fingerprints of two batches of two images with different
\* names were computed and are equal, although the second batch is made of
\* other objects, in the other order, one of them with another payload.
C10_Witness ==
    /\ hfresh
    /\ Len(himages) = 2
    /\ Len(hother) = 2
    /\ himages[1].name # himages[2].name
    /\ hother[1].name = himages[2].name
    /\ hother[2].name = himages[1].name
    /\ hother[1].oid # himages[2].oid
    /\ hother[1].data # himages[2].data
    /\ SamePairs(himages, hother)
    /\ hfp[1] = hfp[2]

\* C11 as claimed: two batches whose collections of (BASENAME, CALSTEPS) pairs
\* differ never get the same fingerprint, so never the same cache file name.
C11_DistinctPairsDistinctKeys ==
    (hfresh /\ ~SamePairs(himages, hother)) =>
        /\ hfp[1] # hfp[2]
        /\ get_cache_file_name(himages) # get_cache_file_name(hother)

-----------------------------------------------------------------------------
(* Properties of the Monitor (SpecMonitor, SpecMonitorLive, SpecConstruct) *)

\* the worker is between two events: sleeping, or waiting in queue.get()
Idle(w) == wk[w].pc \in {"top", "get"}

\* C12 as claimed: the midway checkpoint is executed at most once in a run,
\* under every interleaving of the workers.
C12_MidwayAtMostOnce == midway_runs <= 1

\* C13: once the watch loop has been left, by the deadline or by an
\* exception, the final postprocess runs exactly once, after the watcher has
\* been stopped and joined, whether or not the midway pass has run.
C13_FinalPassAfterWatcherJoined ==
    /\ Len(final_runs) <= 1
    /\ \A k \in 1..Len(final_runs) : final_runs[k] = "joined"
    /\ main.pc \in {"new", "init", "watching"} => final_runs = <<>>
    /\ main.pc \in {"log_write", "done"} =>
          /\ Len(final_runs) = 1
          /\ observer = "joined"

\* C13 witness: the loop was left by the deadline after a worker had run the
\* midway pass, and the final pass has run.
C13_Witness ==
    /\ main.pc = "done"
    /\ ~main.exc
    /\ midway_postprocess_complete
    /\ midway_runs >= 1
    /\ final_runs = <<"joined">>

\* C14 as claimed: no exception ends a worker thread.
C14_NoWorkerEnds == \A w \in Workers : wk[w].pc # "dead"

\* C15 as claimed: whenever all workers are idle, the error file holds every
\* report that has been added to the ErrorStack.
C15_FileHoldsEveryReport ==
    (\A w \in Workers : Idle(w)) => errorstack \subseteq error_file

\* the final deadline has passed while the main loop is running
Expired == main.pc = "watching" /\ elapsed >= final_postprocess_hours

\* the watcher has been stopped and joined and the final pass has started
FinalPassStarted == observer = "joined" /\ Len(final_runs) = 1

\* C16: once the elapsed time has reached the final duration, the main loop
\* exits, the watcher is stopped and the final pass is started, whatever the
\* workers are doing.
C16_MainThreadTerminates == Expired ~> FinalPassStarted

\* C16 witness: the deadline has ended the loop and the final pass has
\* started while a worker is hung in a reduction or waits for a file that is
\* not fully transferred.
C16_Witness ==
    /\ FinalPassStarted
    /\ ~main.exc
    /\ \E w \in Workers :
          \/ wk[w].pc = "hung"
          \/ wk[w].pc = "wait" /\ ~transfer_complete(wk[w].event)

C18_MidwayNeverExceedsFinal ==
    main.pc = "init" =>
        /\ midway_postprocess_hours <= final_postprocess_hours
        /\ final_postprocess_hours = hours(args[2])
        /\ IF args[1] > args[2]
           THEN /\ midway_postprocess_hours = ninety_five_percent(hours(args[2]))
                /\ warned
           ELSE /\ midway_postprocess_hours = hours(args[1])
                /\ ~warned

-----------------------------------------------------------------------------
(* Properties of the containers (SpecContainer) *)

\* every item is of the declared element type and of one concrete type
Homogeneous(c) ==
    \A k \in 1..Len(c.items) :
        /\ isinstance(c.items[k], data_type(c.cls))
        /\ c.items[k] = c.items[1]

\* C19 as claimed: after any sequence of construction, append, +, += and
\* item assignment the items of a container are of its element type and of
\* one concrete type.
C19_ContainerHomogeneous == Homogeneous(container)

\* the item does not fit the container: it is not of the declared element
\* type, or its concrete type is not that of the first item present
Mismatch(cls, items, item) ==
    \/ ~isinstance(item, data_type(cls))
    \/ Len(items) > 0 /\ items[1] # item

\* C20 as claimed: an append of an item that does not fit fails with a
\* TypeError.
C20_AppendRaisesTypeError ==
    (last_op.op = "append"
       /\ Mismatch(container.cls, last_op.before, last_op.arg[1])) =>
        last_op.raised = "TypeError"

\* C20 amended: an append of an item that does not fit fails with a
\* ValueError and leaves the container as it was; an append of an item that
\* fits raises nothing and puts the item at the end.
C20_AppendRaisesValueError ==
    last_op.op = "append" =>
        IF Mismatch(container.cls, last_op.before, last_op.arg[1])
        THEN /\ last_op.raised = "ValueError"
             /\ container.items = last_op.before
        ELSE /\ last_op.raised = "none"
             /\ container.items = Append(last_op.before, last_op.arg[1])

\* C20 witness: an ImageBatch that holds an Image was given an object of a
\* subclass of Image; the append raised and the batch is as it was.
C20_Witness ==
    /\ last_op.op = "append"
    /\ container.cls = "ImageBatch"
    /\ last_op.before = <<"Image">>
    /\ last_op.arg = <<"ImageSubclass">>
    /\ last_op.raised = "ValueError"
    /\ container.items = <<"Image">>

\* C21: a failed append is atomic: the container holds the same items in
\* the same order, and so has the same length, as before the call.
C21_FailedAppendAtomic ==
    (last_op.op = "append" /\ last_op.raised # "none") =>
        /\ Len(container.items) = Len(last_op.before)
        /\ \A k \in 1..Len(last_op.before) :
              container.items[k] = last_op.before[k]

\* C21 witness: an append to a Dataset that holds two batches was rejected,
\* and the Dataset holds the two batches as before.
C21_Witness ==
    /\ last_op.op = "append"
    /\ last_op.raised = "ValueError"
    /\ container.cls = "Dataset"
    /\ Len(last_op.before) = 2
    /\ container.items = last_op.before

-----------------------------------------------------------------------------
(* Properties of the scratch files (SpecScratch) *)

\* the instances that have not been deleted
Live == { i \in 1..Len(instances) : instances[i].live }

\* C22 as claimed: two distinct live Images, an Image and its copy included,
\* have distinct scratch paths, and the payload of a live Image is never
\* removed by what is done to another.
C22_DistinctScratchPaths ==
    session = "running" =>
        /\ \A i, j \in Live :
              i # j => instances[i].cache_path # instances[j].cache_path
        /\ \A i \in Live : scratch[instances[i].cache_path] # NoData

\* C23 as claimed: when the entry point has left its try block, by return or
\* by exception, clean_cache has completed, the registry is empty and no
\* scratch file registered during the session is left.
C23_CleanCacheRemovesAll ==
    session # "running" =>
        /\ cleaned = "none"
        /\ cache_files = <<>>
        /\ \A p \in registered : scratch[p] = NoData

-----------------------------------------------------------------------------
(* Properties of the prerequisite check (SpecProcessors) *)

\* the processor last checked requires a Sextractor and none precedes it
SextractorAbsent ==
    /\ configuration[last_check.at] \in {"Scamp", "PSFex"}
    /\ \A k \in 1..(last_check.at - 1) : configuration[k] # "Sextractor"

\* C24: check_prerequisites fails with a PrerequisiteError exactly when the
\* required Sextractor is absent from the steps that precede the processor;
\* it passes otherwise, and a Sextractor placed after it does not count.
C24_PrerequisiteErrorIffAbsent ==
    last_check.kind = "check_prerequisites" =>
        /\ last_check.result \in {"none", "PrerequisiteError"}
        /\ last_check.result = "PrerequisiteError" <=> SextractorAbsent

-----------------------------------------------------------------------------
(* Properties of the two postprocessing passes and of the wait for a file
   (SpecMonitor) *)

\* the worker is inside the postprocess call of the midway checkpoint
InMidwayPass(w) == wk[w].pc = "log_write" /\ wk[w].ret = "mail"

\* the main thread is inside the postprocess call of the finally block
InFinalPass == main.pc = "log_write"

\* C25 as claimed: the midway pass and the final pass never execute at the
\* same time; the final pass starts only after a started midway pass has
\* finished.
C25_PassesNeverOverlap == ~(InFinalPass /\ \E w \in Workers : InMidwayPass(w))

\* the worker reaches the test of the midway deadline without waiting for a
\* reduction, a file or the queue
Prompt(w) == wk[w].pc \in {"top", "set_flag", "log_write", "send", "handler"}

\* C26 as claimed: while the run lasts, once the midway deadline has elapsed
\* and the checkpoint has not been executed, some worker is about to test the
\* deadline, whatever the workers are doing: the checkpoint is executed
\* within a polling interval.
C26_MidwayWithinPollingInterval ==
    (main.pc = "watching" /\ midway_due(elapsed) /\ ~midway_postprocess_complete)
        => \E w \in Workers : Prompt(w)

\* the file of the event a worker holds is not fully written
Unfinished(w) == wk[w].event.kind = "partial"

\* C28: a worker passes no file to load_raw_image before the completeness
\* check has succeeded for it: a worker that holds an unfinished file is in
\* the wait loop and stays there with that file, however often it retries,
\* and no reduction is made of an unfinished file.
C28_LoadOnlyAfterTransferComplete ==
    /\ [](\A w \in Workers : Unfinished(w) => wk[w].pc = "wait")
    /\ [](\A k \in 1..Len(reductions) : reductions[k].event.kind # "partial")
    /\ [][\A w \in Workers : Unfinished(w) => wk'[w] = wk[w]]_vars

\* C28 witness: a worker is in the wait loop with an unfinished file after
\* the clock has moved on.
C28_Witness ==
    /\ now >= 1
    /\ \E w \in Workers : wk[w].pc = "wait" /\ Unfinished(w)

-----------------------------------------------------------------------------
(* Properties of the processing history over a run (SpecPipeline) *)

\* the DataBlocks of a Dataset
BlocksOf(ds) == UNION { Entries(ds[b]) : b \in 1..Len(ds) }

\* the k-th step of the run returned from apply for the batch of the block
AppliedTo(k, name) ==
    \E i \in 1..Len(trace[k].attempts) :
        /\ ~trace[k].attempts[i].raised
        /\ name \in BatchNames(trace[k].attempts[i].batch_out)

\* the keys, each followed by ",", of all of the first k steps of the run
RECURSIVE AllKeys(_)
AllKeys(k) ==
    IF k = 0 THEN <<>>
    ELSE AllKeys(k - 1) \o trace[k].proc.key \o <<COMMA>>

\* the keys, each followed by ",", of those of the first k steps of the run
\* that were applied to the block
RECURSIVE AppliedKeys(_, _)
AppliedKeys(name, k) ==
    IF k = 0 THEN <<>>
    ELSE AppliedKeys(name, k - 1)
         \o (IF AppliedTo(k, name) THEN trace[k].proc.key \o <<COMMA>>
             ELSE <<>>)

IsPrefix(s, t) == Len(s) <= Len(t) /\ SubSeq(t, 1, Len(s)) = s

\* C27 as claimed: a DataBlock that survives the steps P1..Pn of a run
\* carries the keys of all of P1..Pn in step order.
C27_CarriesAllKeys ==
    \A x \in BlocksOf(dataset) : x.hist = AllKeys(Len(trace))

\* C27 amended: the history of a surviving DataBlock is its initial (empty)
\* value followed by the keys of exactly the steps whose apply returned for
\* its batch, in step order, and no step removes or rewrites an entry: the
\* old history is a prefix of the new one.
C27_HistoryOfAppliedSteps ==
    /\ [](\A x \in BlocksOf(dataset) :
             x.hist = AppliedKeys(x.name, Len(trace)))
    /\ [][\A x \in BlocksOf(dataset), y \in BlocksOf(dataset') :
             x.name = y.name => IsPrefix(x.hist, y.hist)]_vars

\* C27 witness: a run of two steps has ended; one block carries the keys of
\* both, and another block, whose batch raised a NoncriticalProcessingError
\* in one of the steps, carries one key only.
C27_Witness ==
    /\ pc = "done"
    /\ Len(trace) = 2
    /\ \E x, y \in BlocksOf(dataset) :
          /\ x.hist = AllKeys(2)
          /\ Len(y.hist) = 2

-----------------------------------------------------------------------------
(* Properties of export_to_db (SpecExport) *)

\* the rows that held a unique key of the exported entry before the call
Existing == conflicts(last_export.before, last_export.new)

\* C29 as claimed: for an entry whose unique key is already in the table,
\* 'fail' raises and leaves the table unchanged; 'ignore' raises nothing,
\* leaves the table unchanged and returns the sequence values of the existing
\* row; 'replace' updates the existing row; afterwards the table holds one
\* row for that key; an integrity error other than a unique violation is
\* raised again under every protocol; any other protocol is rejected before
\* the table is touched.
C29_DuplicateProtocols ==
    /\ (last_export.protocol \in POSTGRES_DUPLICATE_PROTOCOLS
            /\ Existing # {}) =>
          /\ last_export.protocol = "fail" =>
                /\ last_export.raised = "UniqueViolation"
                /\ db_table = last_export.before
          /\ last_export.protocol = "ignore" =>
                /\ last_export.raised = "none"
                /\ db_table = last_export.before
                /\ \E r \in Existing : last_export.values = <<r.uprocid>>
          /\ last_export.protocol = "replace" =>
                /\ last_export.raised = "none"
                /\ \E r \in Existing :
                      make_row(last_export.new, r.uprocid) \in db_table
          /\ (\E r \in Existing : r.procid = last_export.new.procid) =>
                Cardinality({ r \in db_table :
                                r.procid = last_export.new.procid }) = 1
          /\ (\E r \in Existing : r.savepath = last_export.new.savepath) =>
                Cardinality({ r \in db_table :
                                r.savepath = last_export.new.savepath }) = 1
    /\ (last_export.protocol \in POSTGRES_DUPLICATE_PROTOCOLS
            /\ Existing = {}
            /\ ~last_export.new.urawid_exists) =>
          /\ last_export.raised = "IntegrityError"
          /\ db_table = last_export.before
    /\ last_export.protocol \notin POSTGRES_DUPLICATE_PROTOCOLS \cup {"none"} =>
          /\ last_export.raised = "AssertionError"
          /\ db_table = last_export.before

-----------------------------------------------------------------------------
(* Properties of the processor registry (SpecProcessors) *)

\* C30 as claimed: the registry maps the key of every defined concrete
\* processor type to that type; no definition replaces the entry of another
\* type, and a history entry names one registered type.
C30_RegistryHoldsEveryProcessor ==
    \A cls \in defined \cap ConcreteProcessors :
        subclasses[base_key(cls)] = cls

====
